---- MODULE Spec2Model ----
(***************************************************************************)
(* Consistent-hash ring with virtual points and the replicating memcached  *)
(* client built on it (distributed_memcached.py).                          *)
(*                                                                         *)
(* Python values are modelled as follows.  A list is a sequence, read with *)
(* the code's 0-based index i as s[i + 1].  A dict is a function whose     *)
(* DOMAIN is the set of its keys.  A call's outcome is a record            *)
(* [exc, val]: exc = "none" and the returned value, or the name of the     *)
(* exception it raised ("Hang" when the call never returns).               *)
(*                                                                         *)
(* hashlib.md5 is a fixed function nobody can tabulate here: it is the     *)
(* variable md5, one table over the strings of the model, drawn once by    *)
(* Init from a family of tables and never changed afterwards.              *)
(***************************************************************************)
EXTENDS Integers, Sequences, FiniteSets, TLC

VARIABLES md5, ring, hash2node, nodes, replication_factor, servers,
          key_map, ret, mut, calls

\* the state, with the record of the last call field by field, the call's
\* name first: two records of different calls differ there, before values
\* of different types could meet in a comparison
vars == <<md5, ring, hash2node, nodes, replication_factor, servers, key_map,
          mut, calls,
          ret.op, ret.exc, ret.arg, ret.fail, ret.attempts, ret.value, ret.val>>

(***************************************************************************)
(* Bounds                                                                  *)
(***************************************************************************)
\* ConsistentHashRing.replicas: virtual points per node (the code's V)
replicas == 2

\* largest replication_factor / count handed to the ring
MaxCount == 3

\* node identifiers ("host:port" in the code), in a fixed enumeration order
NodeOrder == <<"A", "B", "C">>

NodeNames == {NodeOrder[j] : j \in 1..Len(NodeOrder)}

\* connections a caller may open to one address
Conns == {"c1", "c2"}

\* cache keys; "A:0" is also the string of node A's first virtual point
Keys == {"k1", "A:0"}

\* size of the modelled hash space: room for every point plus free slots
HashSpace == Cardinality(NodeNames) * (replicas + 1)

(***************************************************************************)
(* Python's None, one per type it stands in for                            *)
(***************************************************************************)
NoName == "None"

NoClient == [addr |-> "None", conn |-> "None"]

\* base.Client((host, port), ...): a handle to the server at that address
Client(addr, conn) == [addr |-> addr, conn |-> conn]

Ok(v) == [exc |-> "none", val |-> v]

Raise(e) == [exc |-> e, val |-> <<>>]

(***************************************************************************)
(* Hashing                                                                 *)
(***************************************************************************)
\* f"{node_name}:{i}"
PointStr(node_name, i) == node_name \o ":" \o ToString(i)

Points == {PointStr(n, i) : n \in NodeNames, i \in 0..(replicas - 1)}

Strs == Points \cup Keys

NodeIdx(n) == CHOOSE j \in 1..Len(NodeOrder) : NodeOrder[j] = n

\* a numbering of the strings of the model: the points first, then the
\* keys that are no point
StrIndex(s) ==
    IF s \in Points
    THEN LET n == CHOOSE m \in NodeNames : \E i \in 0..(replicas - 1) : PointStr(m, i) = s
             i == CHOOSE k \in 0..(replicas - 1) : PointStr(n, k) = s
         IN (NodeIdx(n) - 1) * replicas + i
    ELSE Cardinality(Points)

RECURSIVE GCD(_, _)
GCD(a, b) == IF b = 0 THEN a ELSE GCD(b, a % b)

\* one table of the family: an affine map of the numbering
Table(a, b) == [s \in Strs |-> (a * StrIndex(s) + b) % HashSpace]

\* the multipliers that make a table injective on the numbering
Multipliers == {a \in 1..(HashSpace - 1) : GCD(a, HashSpace) = 1}

\* tables under which no two distinct strings share a digest
InjectiveTables ==
    {Table(a, b) : a \in Multipliers, b \in 0..(HashSpace - 1)}

\* ConsistentHashRing._hash
_hash(key) == md5[key]

(***************************************************************************)
(* Library routines the ring uses                                          *)
(***************************************************************************)
RECURSIVE bisect_right_loop(_, _, _, _)
bisect_right_loop(a, x, lo, hi) ==
    IF lo < hi
    THEN LET mid == (lo + hi) \div 2
         IN IF x < a[mid + 1]
            THEN bisect_right_loop(a, x, lo, mid)
            ELSE bisect_right_loop(a, x, mid + 1, hi)
    ELSE lo

RECURSIVE bisect_left_loop(_, _, _, _)
bisect_left_loop(a, x, lo, hi) ==
    IF lo < hi
    THEN LET mid == (lo + hi) \div 2
         IN IF a[mid + 1] < x
            THEN bisect_left_loop(a, x, mid + 1, hi)
            ELSE bisect_left_loop(a, x, lo, mid)
    ELSE lo

\* bisect.bisect_left(a, x)
bisect_left(a, x) == bisect_left_loop(a, x, 0, Len(a))

\* bisect with the insertion point left of equal entries
bisect_leftmost(a, x) == bisect_left_loop(a, x, 0, Len(a))

\* bisect.bisect(a, x), an alias of bisect_right
bisect(a, x) == bisect_right_loop(a, x, 0, Len(a))

RECURSIVE insert_sorted(_, _)
insert_sorted(s, x) ==
    IF s = <<>> THEN <<x>>
    ELSE IF x < Head(s) THEN <<x>> \o s
    ELSE <<Head(s)>> \o insert_sorted(Tail(s), x)

\* add_node without its last line
sort_skipped(s) == s

RECURSIVE sort(_)
\* list.sort()
sort(s) == IF s = <<>> THEN <<>> ELSE insert_sorted(sort(Tail(s)), Head(s))

\* list.pop(idx)
pop(s, idx) == SubSeq(s, 1, idx) \o SubSeq(s, idx + 2, Len(s))

\* del d[k]
DictDel(d, k) == [x \in (DOMAIN d) \ {k} |-> d[x]]

\* d[k] = v
DictSet(d, k, v) == (k :> v) @@ d

(***************************************************************************)
(* ConsistentHashRing                                                      *)
(***************************************************************************)
\* the ring object's three fields as one value
RingState == [ring |-> ring, hash2node |-> hash2node, nodes |-> nodes]

\* ConsistentHashRing.__init__
EmptyRing == [ring |-> <<>>, hash2node |-> <<>>, nodes |-> <<>>]

RECURSIVE add_points(_, _, _)
\* the for loop of add_node, from index i on
add_points(rs, node_name, i) ==
    IF i >= replicas THEN rs
    ELSE LET h == _hash(PointStr(node_name, i))
         IN add_points([rs EXCEPT !.hash2node = DictSet(@, h, node_name),
                                  !.ring = Append(@, h)],
                       node_name, i + 1)

\* add_node without its early return: a registered name has its handle
\* replaced
add_node_rebind(rs, node_name, client) ==
    IF node_name \in DOMAIN rs.nodes
    THEN [rs EXCEPT !.nodes = DictSet(@, node_name, client)]
    ELSE LET registered == [rs EXCEPT !.nodes = DictSet(@, node_name, client)]
             appended == add_points(registered, node_name, 0)
         IN [appended EXCEPT !.ring = sort(@)]

add_node(rs, node_name, client) ==
    IF node_name \in DOMAIN rs.nodes THEN rs
    ELSE LET registered == [rs EXCEPT !.nodes = DictSet(@, node_name, client)]
             appended == add_points(registered, node_name, 0)
         IN [appended EXCEPT !.ring = sort(@)]

\* remove_point searching with bisect instead of bisect_left: the index is
\* past h, so nothing is popped
remove_point_right(rs, h) ==
    LET idx == bisect_right_loop(rs.ring, h, 0, Len(rs.ring))
    IN [rs EXCEPT !.hash2node = DictDel(@, h),
                  !.ring = IF idx < Len(@) /\ @[idx + 1] = h THEN pop(@, idx) ELSE @]

\* one pass of remove_node's for loop: drop h's owner entry and one
\* occurrence of h from the ring
remove_point(rs, h) ==
    LET idx == bisect_left(rs.ring, h)
    IN [rs EXCEPT !.hash2node = DictDel(@, h),
                  !.ring = IF idx < Len(@) /\ @[idx + 1] = h THEN pop(@, idx) ELSE @]

RECURSIVE remove_points(_, _)
\* the for loop of remove_node over to_remove; the hashes of to_remove are
\* distinct dict keys, so the order they are taken in does not matter
remove_points(rs, to_remove) ==
    IF to_remove = {} THEN rs
    ELSE LET h == CHOOSE x \in to_remove : \A y \in to_remove : x <= y
         IN remove_points(remove_point(rs, h), to_remove \ {h})

\* remove_node that only forgets the handle and leaves the points in place
remove_node_handle_only(rs, node_name) ==
    IF node_name \notin DOMAIN rs.nodes THEN rs
    ELSE [rs EXCEPT !.nodes = DictDel(@, node_name)]

remove_node(rs, node_name) ==
    IF node_name \notin DOMAIN rs.nodes THEN rs
    ELSE LET unregistered == [rs EXCEPT !.nodes = DictDel(@, node_name)]
             to_remove == {h \in DOMAIN rs.hash2node : rs.hash2node[h] = node_name}
         IN remove_points(unregistered, to_remove)

get_node(rs, key) ==
    IF rs.ring = <<>> THEN Ok(<<NoName, NoClient>>)
    ELSE LET h == _hash(key)
             found == bisect(rs.ring, h)
             idx == IF found = Len(rs.ring) THEN 0 ELSE found
         IN IF rs.ring[idx + 1] \notin DOMAIN rs.hash2node THEN Raise("KeyError")
            ELSE LET node_name == rs.hash2node[rs.ring[idx + 1]]
                 IN IF node_name \notin DOMAIN rs.nodes THEN Raise("KeyError")
                    ELSE Ok(<<node_name, rs.nodes[node_name]>>)

\* the test of line 69 without its first half
takes_registered(rs, node_name, used_names) == node_name \in DOMAIN rs.nodes

\* the test of line 69: a node not collected yet and still registered
takes(rs, node_name, used_names) ==
    node_name \notin used_names /\ node_name \in DOMAIN rs.nodes

RECURSIVE walk(_, _, _, _, _, _)
\* the while loop of get_nodes_for_key; passes counts the iterations done:
\* after Len(ring) of them every position has been visited once, found and
\* used_names can grow no more, and a loop still running runs forever
walk(rs, count, i0, found, used_names, passes) ==
    LET ring_len == Len(rs.ring)
    IN IF ~(Len(found) < count /\ ring_len > 0) THEN Ok(found)
       ELSE IF passes >= ring_len THEN Raise("Hang")
       ELSE LET i == IF i0 = ring_len THEN 0 ELSE i0
            IN IF rs.ring[i + 1] \notin DOMAIN rs.hash2node THEN Raise("KeyError")
               ELSE LET node_name == rs.hash2node[rs.ring[i + 1]]
                        take == takes(rs, node_name, used_names)
                        found2 == IF take
                                  THEN Append(found, <<node_name, rs.nodes[node_name]>>)
                                  ELSE found
                        used2 == IF take THEN used_names \cup {node_name} ELSE used_names
                    IN IF Cardinality(used2) = Cardinality(DOMAIN rs.nodes)
                       THEN Ok(found2)
                       ELSE walk(rs, count, i + 1, found2, used2, passes + 1)

\* get_nodes_for_key starting its walk one position after the successor
get_nodes_for_key_next(rs, key, count) ==
    IF rs.ring = <<>> THEN Ok(<<>>)
    ELSE walk(rs, count, (bisect(rs.ring, _hash(key)) % Len(rs.ring)) + 1, <<>>, {}, 0)

get_nodes_for_key(rs, key, count) ==
    IF rs.ring = <<>> THEN Ok(<<>>)
    ELSE walk(rs, count, bisect(rs.ring, _hash(key)), <<>>, {}, 0)

(***************************************************************************)
(* The memcached servers and pymemcache's base.Client                      *)
(***************************************************************************)
Str(d) == [kind |-> "str", data |-> d]

Bytes(d) == [kind |-> "bytes", data |-> d]

\* None as a cache value: what a server's get answers for a missing key
NoneVal == [kind |-> "None", data |-> ""]

\* values a caller stores: a text, a byte string that is valid UTF-8 and
\* one that is not
Values == {Str("v1"), Bytes("v1"), Bytes("xff")}

\* what the client library puts on the wire: text is encoded, bytes go as is
Encode(value) == IF value.kind = "str" THEN Bytes(value.data) ELSE value

\* get handing the stored bytes back as they are
Decode_skipped(v) == v

\* v.decode() of get, falling back to v when the bytes are no valid UTF-8
Decode(v) ==
    IF v.kind = "bytes"
    THEN IF v.data # "xff" THEN Str(v.data) ELSE v
    ELSE v

\* a fresh server holds nothing
EmptyServer == [k \in Keys |-> NoneVal]

\* client.set(key, value, expire=ttl) on the server behind the handle: raises
\* when the node is failing, stores the encoded value otherwise
client_set(srv, client, key, value, fail) ==
    IF client.addr \in fail THEN [exc |-> "Exception", srv |-> srv]
    ELSE [exc |-> "none", srv |-> [srv EXCEPT ![client.addr][key] = Encode(value)]]

\* client.get(key)
client_get(srv, client, key, fail) ==
    IF client.addr \in fail THEN Raise("Exception")
    ELSE Ok(srv[client.addr][key])

\* client.delete(key)
client_delete(srv, client, key, fail) ==
    IF client.addr \in fail THEN [exc |-> "Exception", srv |-> srv]
    ELSE [exc |-> "none", srv |-> [srv EXCEPT ![client.addr][key] = NoneVal]]

(***************************************************************************)
(* DistributedMemcachedClient                                              *)
(***************************************************************************)
\* set starting from success = True: an empty replica set would report success
SetLocals_optimistic(srv) ==
    [srv |-> srv, results |-> <<>>, success |-> TRUE, stored_nodes |-> <<>>,
     attempts |-> <<>>]

\* the locals of set while its for loop runs
SetLocals(srv) ==
    [srv |-> srv, results |-> <<>>, success |-> FALSE, stored_nodes |-> <<>>,
     attempts |-> <<>>]

\* set_body with the overall result following the last node instead of
\* any node
set_body_last_wins(st, node_name, client, key, value, fail) ==
    LET r == client_set(st.srv, client, key, value, fail)
    IN IF r.exc = "none"
       THEN [st EXCEPT !.srv = r.srv,
                       !.results = DictSet(@, node_name, TRUE),
                       !.stored_nodes = Append(@, node_name),
                       !.success = TRUE,
                       !.attempts = Append(@, node_name)]
       ELSE [st EXCEPT !.results = DictSet(@, node_name, FALSE),
                       !.success = FALSE,
                       !.attempts = Append(@, node_name)]

\* the body of set's for loop for one (node_name, client) pair
set_body(st, node_name, client, key, value, fail) ==
    LET r == client_set(st.srv, client, key, value, fail)
    IN IF r.exc = "none"
       THEN [st EXCEPT !.srv = r.srv,
                       !.results = DictSet(@, node_name, TRUE),
                       !.stored_nodes = Append(@, node_name),
                       !.success = TRUE,
                       !.attempts = Append(@, node_name)]
       ELSE [st EXCEPT !.results = DictSet(@, node_name, FALSE),
                       !.attempts = Append(@, node_name)]

RECURSIVE set_loop_stop_at_failure(_, _, _, _, _)
\* set's loop with the try around the whole loop: the first failure ends it
set_loop_stop_at_failure(st, located, key, value, fail) ==
    IF located = <<>> THEN st
    ELSE IF Head(located)[2].addr \in fail
         THEN [st EXCEPT !.results = DictSet(@, Head(located)[1], FALSE),
                         !.attempts = Append(@, Head(located)[1])]
         ELSE set_loop_stop_at_failure(
                  [st EXCEPT !.srv = client_set(@, Head(located)[2], key, value, fail).srv,
                             !.results = DictSet(@, Head(located)[1], TRUE),
                             !.stored_nodes = Append(@, Head(located)[1]),
                             !.success = TRUE,
                             !.attempts = Append(@, Head(located)[1])],
                  Tail(located), key, value, fail)

RECURSIVE set_loop(_, _, _, _, _)
set_loop(st, located, key, value, fail) ==
    IF located = <<>> THEN st
    ELSE set_loop(set_body(st, Head(located)[1], Head(located)[2], key, value, fail),
                  Tail(located), key, value, fail)

\* the locals of delete while its for loop runs
DeleteLocals(srv) == [srv |-> srv, results |-> <<>>, attempts |-> <<>>]

\* the body of delete's for loop for one (node_name, client) pair
delete_body(st, node_name, client, key, fail) ==
    LET r == client_delete(st.srv, client, key, fail)
    IN IF r.exc = "none"
       THEN [st EXCEPT !.srv = r.srv,
                       !.results = DictSet(@, node_name, TRUE),
                       !.attempts = Append(@, node_name)]
       ELSE [st EXCEPT !.results = DictSet(@, node_name, FALSE),
                       !.attempts = Append(@, node_name)]

RECURSIVE delete_loop(_, _, _, _)
delete_loop(st, located, key, fail) ==
    IF located = <<>> THEN st
    ELSE delete_loop(delete_body(st, Head(located)[1], Head(located)[2], key, fail),
                     Tail(located), key, fail)

RECURSIVE get_loop_stop_on_error(_, _, _, _, _)
\* get's loop with the try around the whole loop: a failing node ends the
\* walk with None
get_loop_stop_on_error(srv, located, key, fail, attempts) ==
    IF located = <<>> THEN [val |-> NoneVal, attempts |-> attempts]
    ELSE LET node_name == Head(located)[1]
             r == client_get(srv, Head(located)[2], key, fail)
             asked == Append(attempts, node_name)
         IN IF r.exc # "none" THEN [val |-> NoneVal, attempts |-> asked]
            ELSE IF r.val # NoneVal
            THEN [val |-> Decode(r.val), attempts |-> asked]
            ELSE get_loop_stop_on_error(srv, Tail(located), key, fail, asked)

RECURSIVE get_loop(_, _, _, _, _)
\* the for loop of get: [val, attempts], the value returned and the nodes
\* queried on the way
get_loop(srv, located, key, fail, attempts) ==
    IF located = <<>> THEN [val |-> NoneVal, attempts |-> attempts]
    ELSE LET node_name == Head(located)[1]
             r == client_get(srv, Head(located)[2], key, fail)
             asked == Append(attempts, node_name)
         IN IF r.exc = "none" /\ r.val # NoneVal
            THEN [val |-> Decode(r.val), attempts |-> asked]
            ELSE get_loop(srv, Tail(located), key, fail, asked)

\* delete without its last two lines: the record of the key is kept
forget_key_kept(km, key) == km

\* del self.key_map[key] when the key is tracked
forget_key(km, key) == IF key \in DOMAIN km THEN DictDel(km, key) ELSE km

\* counts.get(n, 0)
DictGet(d, k, default) == IF k \in DOMAIN d THEN d[k] ELSE default

\* the inner loop counting every node as 1, however many keys list it
count_nodes_flag(counts, nodes_list) ==
    [n \in DOMAIN counts \cup {nodes_list[j] : j \in 1..Len(nodes_list)} |-> 1]

RECURSIVE count_nodes(_, _)
\* for n in nodes: counts[n] = counts.get(n, 0) + 1
count_nodes(counts, nodes_list) ==
    IF nodes_list = <<>> THEN counts
    ELSE count_nodes(DictSet(counts, Head(nodes_list),
                             DictGet(counts, Head(nodes_list), 0) + 1),
                     Tail(nodes_list))

RECURSIVE stats_loop(_, _, _)
\* for k, nodes in self.key_map.items(), over the keys still to visit
stats_loop(counts, km, keys) ==
    IF keys = {} THEN counts
    ELSE LET k == CHOOSE x \in keys : TRUE
         IN stats_loop(count_nodes(counts, km[k]), km, keys \ {k})

distribution_stats(km) == stats_loop(<<>>, km, DOMAIN km)

(***************************************************************************)
(* State machine                                                           *)
(***************************************************************************)
\* what the last call was, what it was given and what it answered:
\* arg is its key or node name, fail the nodes that were failing during it,
\* attempts the nodes it issued a remote call to, in order; val is the value
\* returned (for add_node and remove_node, which return nothing, whether
\* the call got past its early return); value is the value handed to set
Ret(op, arg, fail, exc, val, attempts) ==
    [op |-> op, arg |-> arg, fail |-> fail, exc |-> exc, val |-> val,
     attempts |-> attempts, value |-> NoneVal]

\* the record of a set(key, value) call
RetSet(key, value, fail, exc, val, attempts) ==
    [Ret("set", key, fail, exc, val, attempts) EXCEPT !.value = value]

\* the names of a located replica list
Names(located) == [j \in 1..Len(located) |-> located[j][1]]

SeqToSet(s) == {s[j] : j \in 1..Len(s)}

\* the failure patterns that matter to a call on key: the subsets of the
\* nodes it will contact
FailPatterns(key) ==
    LET located == get_nodes_for_key(RingState, key, replication_factor)
    IN IF located.exc = "none" THEN SUBSET SeqToSet(Names(located.val)) ELSE {{}}

\* the threads that call delete on one client instance
Threads == {"t1", "t2"}

\* the add_node or remove_node call in progress, statement by statement:
\* i is the loop index of add_node, to_remove the hashes remove_node has
\* still to delete, popping whether the owner entry of the first of them
\* is already deleted; before is the ring the call started from
Mutation(op, node_name, client, i, to_remove, popping, before) ==
    [op |-> op, node_name |-> node_name, client |-> client, i |-> i,
     to_remove |-> to_remove, popping |-> popping, before |-> before]

NoMutation == Mutation("idle", "", NoClient, 0, <<>>, FALSE, EmptyRing)

\* the delete call a thread is in, between its test of key_map and its del:
\* results and attempts are the locals it will return
Call(op, key, fail, results, attempts) ==
    [op |-> op, key |-> key, fail |-> fail, results |-> results,
     attempts |-> attempts]

NoCall == Call("idle", "", {}, <<>>, <<>>)

\* DistributedMemcachedClient(addrs=[], replication_factor=rf) talking to
\* fresh servers; the constructor's add_node calls are AddNode steps
InitWith(tables) ==
    /\ md5 \in tables
    /\ ring = EmptyRing.ring
    /\ hash2node = EmptyRing.hash2node
    /\ nodes = EmptyRing.nodes
    /\ \E rf \in 0..MaxCount : replication_factor = IF rf > 1 THEN rf ELSE 1
    /\ servers = [n \in NodeNames |-> EmptyServer]
    /\ key_map = <<>>
    /\ ret = Ret("init", "", {}, "none", <<>>, <<>>)
    /\ mut = NoMutation
    /\ calls = [t \in Threads |-> NoCall]

\* the tables the client is run under: the lower third of the multipliers,
\* unshifted
ClientTables == {Table(a, 0) : a \in {x \in Multipliers : 3 * x <= HashSpace}}

\* the key the client calls are made on
ClientKeys == {"k1"}

Init == InitWith(ClientTables)

InitRing == InitWith(InjectiveTables)

Returned == ret.exc # "Hang"

SetRing(rs) ==
    /\ ring' = rs.ring
    /\ hash2node' = rs.hash2node
    /\ nodes' = rs.nodes

\* the longest ring add_node is still applied to: colliding digests leave
\* stale points behind, so the ring has no bound of its own
MaxRingLen == replicas * Cardinality(NodeNames)

AddNode(node_name, client) ==
    /\ Returned
    /\ Len(ring) <= MaxRingLen
    /\ SetRing(add_node(RingState, node_name, client))
    /\ ret' = Ret("add_node", node_name, {}, "none", node_name \notin DOMAIN nodes, <<>>)
    /\ UNCHANGED <<mut, calls, md5, replication_factor, servers, key_map>>

RemoveNode(node_name) ==
    /\ Returned
    /\ SetRing(remove_node(RingState, node_name))
    /\ ret' = Ret("remove_node", node_name, {}, "none", node_name \in DOMAIN nodes, <<>>)
    /\ UNCHANGED <<mut, calls, md5, replication_factor, servers, key_map>>

GetNode(key) ==
    /\ Returned
    /\ LET r == get_node(RingState, key)
       IN ret' = Ret("get_node", key, {}, r.exc, r.val, <<>>)
    /\ UNCHANGED <<mut, calls, md5, ring, hash2node, nodes, replication_factor, servers, key_map>>

GetNodesForKey(key, count) ==
    /\ Returned
    /\ LET r == get_nodes_for_key(RingState, key, count)
       IN ret' = Ret("get_nodes_for_key", <<key, count>>, {}, r.exc, r.val, <<>>)
    /\ UNCHANGED <<mut, calls, md5, ring, hash2node, nodes, replication_factor, servers, key_map>>

Set(key, value, fail) ==
    /\ Returned
    /\ LET located == get_nodes_for_key(RingState, key, replication_factor)
       IN IF located.exc # "none"
          THEN /\ ret' = RetSet(key, value, fail, located.exc, <<>>, <<>>)
               /\ UNCHANGED <<servers, key_map>>
          ELSE LET st == set_loop(SetLocals(servers), located.val, key, value, fail)
               IN /\ servers' = st.srv
                  /\ key_map' = DictSet(key_map, key, st.stored_nodes)
                  /\ ret' = RetSet(key, value, fail, "none",
                                   <<st.success, st.results>>, st.attempts)
    /\ UNCHANGED <<mut, calls, md5, ring, hash2node, nodes, replication_factor>>

Get(key, fail) ==
    /\ Returned
    /\ LET located == get_nodes_for_key(RingState, key, replication_factor)
       IN IF located.exc # "none"
          THEN ret' = Ret("get", key, fail, located.exc, <<>>, <<>>)
          ELSE LET r == get_loop(servers, located.val, key, fail, <<>>)
               IN ret' = Ret("get", key, fail, "none", r.val, r.attempts)
    /\ UNCHANGED <<mut, calls, md5, ring, hash2node, nodes, replication_factor, servers, key_map>>

Delete(key, fail) ==
    /\ Returned
    /\ LET located == get_nodes_for_key(RingState, key, replication_factor)
       IN IF located.exc # "none"
          THEN /\ ret' = Ret("delete", key, fail, located.exc, <<>>, <<>>)
               /\ UNCHANGED <<servers, key_map>>
          ELSE LET st == delete_loop(DeleteLocals(servers), located.val, key, fail)
               IN /\ servers' = st.srv
                  /\ key_map' = forget_key(key_map, key)
                  /\ ret' = Ret("delete", key, fail, "none", st.results, st.attempts)
    /\ UNCHANGED <<mut, calls, md5, ring, hash2node, nodes, replication_factor>>

\* the ring on its own: membership changes and lookups
NextRing ==
    \/ \E n \in NodeNames, c \in Conns : AddNode(n, Client(n, c))
    \/ \E n \in NodeNames : RemoveNode(n)
    \/ \E k \in Keys : GetNode(k)
    \/ \E k \in Keys, count \in 0..MaxCount : GetNodesForKey(k, count)

SpecRing == InitRing /\ [][NextRing]_vars

\* the client: the constructor's add_node(name, Client(name)) for each
\* address, later membership changes, and the cache operations
Next ==
    \/ \E n \in NodeNames : AddNode(n, Client(n, "c1"))
    \/ \E n \in NodeNames : RemoveNode(n)
    \/ \E k \in ClientKeys, v \in Values : \E f \in FailPatterns(k) : Set(k, v, f)
    \/ \E k \in ClientKeys : \E f \in FailPatterns(k) : Get(k, f)
    \/ \E k \in ClientKeys : \E f \in FailPatterns(k) : Delete(k, f)

Spec == Init /\ [][Next]_vars

DistributionStats ==
    /\ Returned
    /\ ret' = Ret("distribution_stats", "", {}, "none", distribution_stats(key_map), <<>>)
    /\ UNCHANGED <<mut, calls, md5, ring, hash2node, nodes, replication_factor, servers, key_map>>

\* the value the bookkeeping is exercised with
StatsValues == {Str("v1")}

\* the bookkeeping of several keys: a client whose nodes are all added
\* before or between writes, writes on all the keys under every failure
\* pattern, deletes, and the statistics
NextStats ==
    \/ \E n \in NodeNames : AddNode(n, Client(n, "c1"))
    \/ \E k \in Keys, v \in StatsValues : \E f \in FailPatterns(k) : Set(k, v, f)
    \/ \E k \in Keys : Delete(k, {})
    \/ DistributionStats

SpecStats == Init /\ [][NextStats]_vars

\* every unshifted table of the family, those under which the points of
\* different nodes share a digest included
AllTables == {Table(a, 0) : a \in 0..(HashSpace - 1)}

InitCollide == InitWith(AllTables)

\* the ring under digests that may collide
SpecCollide == InitCollide /\ [][NextRing]_vars

(***************************************************************************)
(* add_node and remove_node statement by statement.  The code takes no     *)
(* lock, so a lookup of another thread may run between any two of these    *)
(* steps; the lookups themselves are taken as one step each.               *)
(***************************************************************************)
\* the record of a statement of a call that has not returned yet
Running(op, node_name) == Ret("running", node_name, {}, "none", op, <<>>)

\* lines 24-26: the early return, or self.nodes[node_name] = client
AddNodeBegin(node_name, client) ==
    /\ Returned
    /\ mut.op = "idle"
    /\ Len(ring) <= MaxRingLen
    /\ IF node_name \in DOMAIN nodes
       THEN /\ ret' = Ret("add_node", node_name, {}, "none", FALSE, <<>>)
            /\ UNCHANGED <<nodes, mut>>
       ELSE /\ nodes' = DictSet(nodes, node_name, client)
            /\ mut' = Mutation("add_node", node_name, client, 0, <<>>, FALSE, RingState)
            /\ ret' = Running("add_node", node_name)
    /\ UNCHANGED <<calls, md5, ring, hash2node, replication_factor, servers, key_map>>

\* lines 27-30: one iteration of the for loop
AddNodePoint ==
    /\ Returned
    /\ mut.op = "add_node"
    /\ mut.i < replicas
    /\ LET h == _hash(PointStr(mut.node_name, mut.i))
       IN /\ hash2node' = DictSet(hash2node, h, mut.node_name)
          /\ ring' = Append(ring, h)
    /\ mut' = [mut EXCEPT !.i = @ + 1]
    /\ ret' = Running("add_node", mut.node_name)
    /\ UNCHANGED <<calls, md5, nodes, replication_factor, servers, key_map>>

\* line 31: self.ring.sort(), and the call returns
AddNodeSort ==
    /\ Returned
    /\ mut.op = "add_node"
    /\ mut.i = replicas
    /\ ring' = sort(ring)
    /\ mut' = NoMutation
    /\ ret' = Ret("add_node", mut.node_name, {}, "none", TRUE, <<>>)
    /\ UNCHANGED <<calls, md5, hash2node, nodes, replication_factor, servers, key_map>>

\* line 37: the hashes owned by node_name, in the order of hash2node's
\* items, which is the order they were inserted in: the node's points by
\* index, when no other string shares their digests
owned_hashes(rs, node_name) ==
    SelectSeq([j \in 1..replicas |-> _hash(PointStr(node_name, j - 1))],
              LAMBDA h : h \in DOMAIN rs.hash2node /\ rs.hash2node[h] = node_name)

\* lines 34-37: the early return, or del self.nodes[node_name] and to_remove
RemoveNodeBegin(node_name) ==
    /\ Returned
    /\ mut.op = "idle"
    /\ IF node_name \notin DOMAIN nodes
       THEN /\ ret' = Ret("remove_node", node_name, {}, "none", FALSE, <<>>)
            /\ UNCHANGED <<nodes, mut>>
       ELSE /\ nodes' = DictDel(nodes, node_name)
            /\ mut' = Mutation("remove_node", node_name, NoClient, 0,
                               owned_hashes(RingState, node_name), FALSE, RingState)
            /\ ret' = Running("remove_node", node_name)
    /\ UNCHANGED <<calls, md5, ring, hash2node, replication_factor, servers, key_map>>

\* line 39: del self.hash2node[h]
RemoveNodeOwner ==
    /\ Returned
    /\ mut.op = "remove_node"
    /\ mut.to_remove # <<>>
    /\ ~mut.popping
    /\ hash2node' = DictDel(hash2node, Head(mut.to_remove))
    /\ mut' = [mut EXCEPT !.popping = TRUE]
    /\ ret' = Running("remove_node", mut.node_name)
    /\ UNCHANGED <<calls, md5, ring, nodes, replication_factor, servers, key_map>>

\* lines 41-43: the hash is searched and popped from the ring
RemoveNodePop ==
    /\ Returned
    /\ mut.op = "remove_node"
    /\ mut.to_remove # <<>>
    /\ mut.popping
    /\ LET h == Head(mut.to_remove)
           idx == bisect_left(ring, h)
       IN ring' = IF idx < Len(ring) /\ ring[idx + 1] = h THEN pop(ring, idx) ELSE ring
    /\ mut' = [mut EXCEPT !.to_remove = Tail(@), !.popping = FALSE]
    /\ ret' = Running("remove_node", mut.node_name)
    /\ UNCHANGED <<calls, md5, hash2node, nodes, replication_factor, servers, key_map>>

\* the for loop of remove_node is over, the call returns
RemoveNodeReturn ==
    /\ Returned
    /\ mut.op = "remove_node"
    /\ mut.to_remove = <<>>
    /\ mut' = NoMutation
    /\ ret' = Ret("remove_node", mut.node_name, {}, "none", TRUE, <<>>)
    /\ UNCHANGED <<calls, md5, ring, hash2node, nodes, replication_factor, servers, key_map>>

\* get_nodes_for_key while the ring may be changing under it: a walk that
\* finds no exit on the ring as it is keeps reading the live ring, so it
\* has not returned yet and is taken up again from a later state
GetNodesForKeyLive(key, count) ==
    /\ get_nodes_for_key(RingState, key, count).exc # "Hang"
    /\ GetNodesForKey(key, count)

\* one thread changing the membership while another one looks keys up
NextConcurrent ==
    \/ \E n \in NodeNames : AddNodeBegin(n, Client(n, "c1"))
    \/ AddNodePoint
    \/ AddNodeSort
    \/ \E n \in NodeNames : RemoveNodeBegin(n)
    \/ RemoveNodeOwner
    \/ RemoveNodePop
    \/ RemoveNodeReturn
    \/ \E k \in Keys : GetNode(k)
    \/ \E k \in Keys, count \in 0..MaxCount : GetNodesForKeyLive(k, count)

SpecConcurrent == Init /\ [][NextConcurrent]_vars

(***************************************************************************)
(* delete called from several threads.  The remote deletes and the test    *)
(* of line 140 are one step, the del of line 141 another: the code holds   *)
(* no lock between them.  set writes key_map in one statement (line 110).  *)
(***************************************************************************)
\* lines 132-140: the remote deletes, then `if key in self.key_map`
DeleteBegin(t, key, fail) ==
    /\ Returned
    /\ calls[t].op = "idle"
    /\ LET located == get_nodes_for_key(RingState, key, replication_factor)
       IN IF located.exc # "none"
          THEN /\ ret' = Ret("delete", key, fail, located.exc, <<>>, <<>>)
               /\ UNCHANGED <<servers, calls>>
          ELSE LET st == delete_loop(DeleteLocals(servers), located.val, key, fail)
               IN /\ servers' = st.srv
                  /\ IF key \in DOMAIN key_map
                     THEN /\ calls' = [calls EXCEPT ![t] =
                                          Call("delete", key, fail, st.results, st.attempts)]
                          /\ ret' = Running("delete", key)
                     ELSE /\ ret' = Ret("delete", key, fail, "none", st.results, st.attempts)
                          /\ UNCHANGED calls
    /\ UNCHANGED <<mut, md5, ring, hash2node, nodes, replication_factor, key_map>>

\* line 141: del self.key_map[key], which raises KeyError when the key is
\* no longer there; line 142 otherwise
DeleteForget(t) ==
    /\ Returned
    /\ calls[t].op = "delete"
    /\ IF calls[t].key \in DOMAIN key_map
       THEN /\ key_map' = DictDel(key_map, calls[t].key)
            /\ ret' = Ret("delete", calls[t].key, calls[t].fail, "none",
                          calls[t].results, calls[t].attempts)
       ELSE /\ ret' = Ret("delete", calls[t].key, calls[t].fail, "KeyError",
                          <<>>, calls[t].attempts)
            /\ UNCHANGED key_map
    /\ calls' = [calls EXCEPT ![t] = NoCall]
    /\ UNCHANGED <<mut, md5, ring, hash2node, nodes, replication_factor, servers>>

\* threads sharing one client: the constructor's add_node calls, then set
\* calls under every failure pattern and delete calls of the threads in any
\* interleaving
NextThreads ==
    \/ \E n \in NodeNames : AddNode(n, Client(n, "c1"))
    \/ \E k \in ClientKeys, v \in StatsValues : \E f \in FailPatterns(k) : Set(k, v, f)
    \/ \E t \in Threads, k \in ClientKeys : DeleteBegin(t, k, {})
    \/ \E t \in Threads : DeleteForget(t)

SpecThreads == Init /\ [][NextThreads]_vars

(***************************************************************************)
(* Vocabulary of the properties                                            *)
(***************************************************************************)
MinOf(S) == CHOOSE x \in S : \A y \in S : x <= y

Min2(a, b) == IF a <= b THEN a ELSE b

NoDuplicates(s) == \A i, j \in 1..Len(s) : i # j => s[i] # s[j]

\* the replica set the client resolves for key in the current state
ReplicaSet(key) == get_nodes_for_key(RingState, key, replication_factor).val

ReplicaNames(key) == Names(ReplicaSet(key))

\* the positions of a located list whose node answers and holds the key
Hits(located, key, fail) ==
    {j \in 1..Len(located) :
        /\ located[j][2].addr \notin fail
        /\ servers[located[j][2].addr][key] # NoneVal}

\* the owner of the ring successor of hash value h: the first point above
\* h, or the smallest point when there is none
SuccessorOwner(rs, h) ==
    LET pts == SeqToSet(rs.ring)
        above == {p \in pts : p > h}
    IN rs.hash2node[IF above # {} THEN MinOf(above) ELSE MinOf(pts)]

\* the primary of key in ring state rs
Primary(rs, key) == get_node(rs, key).val[1]

\* the hash values of the virtual points of node_name
PointHashes(node_name) == {_hash(PointStr(node_name, i)) : i \in 0..(replicas - 1)}

\* every lookup over the keys and counts returns normally in ring state rs
LookupsReturn(rs) ==
    /\ \A k \in Keys : get_node(rs, k).exc = "none"
    /\ \A k \in Keys, count \in 0..MaxCount : get_nodes_for_key(rs, k, count).exc = "none"

\* the node names some lookup returns in ring state rs
LookupNames(rs) ==
    {get_node(rs, k).val[1] : k \in Keys} \cup
    UNION {SeqToSet(Names(get_nodes_for_key(rs, k, count).val)) :
               k \in Keys, count \in 0..MaxCount}

\* the last call was a set that every node of a non-empty replica set
\* accepted
AfterFullSet ==
    /\ ret.op = "set"
    /\ ret.exc = "none"
    /\ ret.fail = {}
    /\ ret.attempts # <<>>

\* the last call was a delete that every node of a non-empty replica set
\* accepted
AfterFullDelete ==
    /\ ret.op = "delete"
    /\ ret.exc = "none"
    /\ ret.fail = {}
    /\ ret.attempts # <<>>

\* the step is a get of the key of the last call during which at least one
\* node of the replica set answers
GetReachesReplica ==
    /\ ret'.op = "get"
    /\ ret'.arg = ret.arg
    /\ SeqToSet(ReplicaNames(ret.arg)) \ ret'.fail # {}

(***************************************************************************)
(* C1  set returns success = TRUE exactly when at least one node of the    *)
(* key's replica set accepted the write, i.e. was not failing during the   *)
(* call; so FALSE when all of them fail, TRUE when one of R succeeds.      *)
(***************************************************************************)
C1_SuccessIffSomeNodeAccepted ==
    ret.op = "set" =>
        /\ ret.exc = "none"
        /\ ret.val[1] = (\E n \in SeqToSet(ReplicaNames(ret.arg)) : n \notin ret.fail)

\* a set on two or more replicas of which exactly one accepted the write
C1_Witness ==
    /\ ret.op = "set"
    /\ Len(ReplicaNames(ret.arg)) >= 2
    /\ Cardinality(SeqToSet(ReplicaNames(ret.arg)) \ ret.fail) = 1
    /\ ret.val[1] = TRUE

(***************************************************************************)
(* C2  set issues exactly one write attempt to every node of the replica   *)
(* set, in order, whatever nodes before it failed; the outcome map has one *)
(* entry per replica-set node, TRUE iff that node's write succeeded; no    *)
(* node failure reaches the caller as an exception.                        *)
(***************************************************************************)
C2_SetAttemptsEveryReplica ==
    ret.op = "set" =>
        /\ ret.exc = "none"
        /\ ret.attempts = ReplicaNames(ret.arg)
        /\ DOMAIN ret.val[2] = SeqToSet(ReplicaNames(ret.arg))
        /\ \A n \in DOMAIN ret.val[2] : ret.val[2][n] = (n \notin ret.fail)

\* a set whose first node failed and whose second node was still attempted
C2_Witness ==
    /\ ret.op = "set"
    /\ Len(ret.attempts) >= 2
    /\ ret.attempts[1] \in ret.fail
    /\ ret.val[2][ret.attempts[1]] = FALSE
    /\ ret.val[2][ret.attempts[2]] = TRUE

(***************************************************************************)
(* C3  get queries the replica set in priority order and returns the       *)
(* (decoded) value of the first node that answers with a present value,    *)
(* querying no later replica; a failing node counts as a miss; with no     *)
(* such node every replica is queried and get returns None.  What the      *)
(* later replicas hold plays no part.                                      *)
(***************************************************************************)
C3_GetFirstPresentWins ==
    ret.op = "get" =>
        LET located == ReplicaSet(ret.arg)
            hits == Hits(located, ret.arg, ret.fail)
        IN /\ ret.exc = "none"
           /\ IF hits = {}
              THEN /\ ret.val = NoneVal
                   /\ ret.attempts = Names(located)
              ELSE /\ ret.val = Decode(servers[located[MinOf(hits)][2].addr][ret.arg])
                   /\ ret.attempts = SubSeq(Names(located), 1, MinOf(hits))

\* a get answered by the primary while the second replica, never queried,
\* holds a different value
C3_Witness ==
    /\ ret.op = "get"
    /\ Len(ReplicaSet(ret.arg)) >= 2
    /\ Len(ret.attempts) = 1
    /\ LET located == ReplicaSet(ret.arg)
           first == servers[located[1][2].addr][ret.arg]
           second == servers[located[2][2].addr][ret.arg]
       IN /\ second # NoneVal
          /\ second # first
          /\ ret.val = Decode(first)

\* a get that walked past a failing primary to the value of the second
\* replica
C3_WitnessSkip ==
    /\ ret.op = "get"
    /\ Len(ret.attempts) = 2
    /\ ret.attempts[1] \in ret.fail
    /\ ret.val # NoneVal

(***************************************************************************)
(* C4  In every ring state reached by add_node and remove_node, for every  *)
(* key and count, get_nodes_for_key returns a list without duplicate node  *)
(* names of length min(count, number of registered nodes); with count at   *)
(* least the number of nodes it holds every registered node once.          *)
(***************************************************************************)
C4_ReplicaSetDistinctAndSized ==
    ret.op = "get_nodes_for_key" =>
        LET count == ret.arg[2]
            names == Names(ret.val)
        IN /\ ret.exc = "none"
           /\ NoDuplicates(names)
           /\ Len(names) = Min2(count, Cardinality(DOMAIN nodes))
           /\ count >= Cardinality(DOMAIN nodes) => SeqToSet(names) = DOMAIN nodes
           /\ \A j \in 1..Len(ret.val) : ret.val[j][2] = nodes[ret.val[j][1]]

\* a lookup asking for more nodes than the two or more registered
C4_Witness ==
    /\ ret.op = "get_nodes_for_key"
    /\ Cardinality(DOMAIN nodes) >= 2
    /\ ret.arg[2] > Cardinality(DOMAIN nodes)
    /\ Len(ret.val) = Cardinality(DOMAIN nodes)

\* a lookup asking for fewer nodes than are registered
C4_WitnessFewer ==
    /\ ret.op = "get_nodes_for_key"
    /\ ret.arg[2] >= 2
    /\ ret.arg[2] < Cardinality(DOMAIN nodes)
    /\ Len(ret.val) = ret.arg[2]

(***************************************************************************)
(* C5  On a non-empty ring get_node(key) returns the node owning the first *)
(* point strictly above hash(key), or the smallest point when hash(key) is *)
(* at or above every point, with that node's handle; the call leaves the   *)
(* ring as it was, so the answer is a function of the ring state and the   *)
(* key alone.                                                              *)
(***************************************************************************)
C5_GetNodeIsRingSuccessor ==
    [][(ret'.op = "get_node" /\ ring # <<>>) =>
          /\ ret'.exc = "none"
          /\ ret'.val[1] = SuccessorOwner(RingState, _hash(ret'.arg))
          /\ ret'.val[2] = nodes[ret'.val[1]]
          /\ RingState' = RingState
          /\ md5' = md5]_vars

\* a lookup that wrapped around: the key hashes at or above every point of
\* a ring of two or more nodes
C5_Witness ==
    /\ ret.op = "get_node"
    /\ Cardinality(DOMAIN nodes) >= 2
    /\ \A p \in SeqToSet(ring) : _hash(ret.arg) >= p
    /\ ret.val[1] = hash2node[ring[1]]

\* a lookup of a key hashing exactly onto a point of another node than the
\* one returned
C5_WitnessOnPoint ==
    /\ ret.op = "get_node"
    /\ _hash(ret.arg) \in SeqToSet(ring)
    /\ ret.val[1] # hash2node[_hash(ret.arg)]

(***************************************************************************)
(* C6  On a non-empty ring get_nodes_for_key(key, 1) is the one-element    *)
(* list [get_node(key)], and the first element of any replica set is the   *)
(* key's primary.                                                          *)
(***************************************************************************)
C6_FirstReplicaIsPrimary ==
    (ret.op = "get_nodes_for_key" /\ ret.arg[2] >= 1 /\ ring # <<>>) =>
        /\ ret.exc = "none"
        /\ Len(ret.val) >= 1
        /\ ret.val[1] = get_node(RingState, ret.arg[1]).val
        /\ ret.arg[2] = 1 => ret.val = <<get_node(RingState, ret.arg[1]).val>>

\* a one-node lookup on a ring of three nodes
C6_Witness ==
    /\ ret.op = "get_nodes_for_key"
    /\ ret.arg[2] = 1
    /\ Cardinality(DOMAIN nodes) = Cardinality(NodeNames)
    /\ Len(ret.val) = 1

(***************************************************************************)
(* C7  From every reachable ring state, for every node name N that is not  *)
(* registered, add_node(N) followed at once by remove_node(N) gives back   *)
(* the point sequence, and every key resolves through get_node and         *)
(* get_nodes_for_key as it did before.                                     *)
(***************************************************************************)
C7_AddThenRemoveRestores ==
    \A n \in NodeNames \ DOMAIN nodes : \A c \in Conns :
        LET added == add_node(RingState, n, Client(n, c))
            after == remove_node(added, n)
        IN /\ after.ring = ring
           /\ \A k \in Keys :
                /\ get_node(after, k) = get_node(RingState, k)
                /\ \A count \in 0..MaxCount :
                      get_nodes_for_key(after, k, count)
                          = get_nodes_for_key(RingState, k, count)

\* a non-empty ring and an unregistered node that, once added, becomes the
\* primary of some key until it is removed again
C7_Witness ==
    /\ ring # <<>>
    /\ \E n \in NodeNames \ DOMAIN nodes : \E k \in Keys :
          LET added == add_node(RingState, n, Client(n, "c1"))
          IN /\ Len(added.ring) = Len(ring) + replicas
             /\ Primary(added, k) = n
             /\ Primary(remove_node(added, n), k) # n

(***************************************************************************)
(* C8  Minimal disruption.  When a registered node A is removed from a     *)
(* ring of two or more nodes, every key whose primary was A resolves to    *)
(* another, registered node and every other key keeps its primary; when a  *)
(* new node N is added, every key's primary stays or becomes N.            *)
(***************************************************************************)
C8_MinimalDisruption ==
    [][/\ (ret'.op = "remove_node" /\ ret'.val /\ Cardinality(DOMAIN nodes) >= 2) =>
            \A k \in Keys :
                IF Primary(RingState, k) = ret'.arg
                THEN /\ Primary(RingState', k) # ret'.arg
                     /\ Primary(RingState', k) \in DOMAIN nodes'
                ELSE Primary(RingState', k) = Primary(RingState, k)
       /\ (ret'.op = "add_node" /\ ret'.val) =>
            \A k \in Keys :
                \/ Primary(RingState', k) = Primary(RingState, k)
                \/ Primary(RingState', k) = ret'.arg]_vars

\* after the removal of a node from a ring of two or more: some key that
\* had the removed node as primary, and some key that had not
C8_Witness ==
    /\ ret.op = "remove_node"
    /\ ret.val
    /\ nodes # <<>>
    /\ LET before == add_node(RingState, ret.arg, Client(ret.arg, "c1"))
       IN /\ \E k \in Keys : Primary(before, k) = ret.arg
          /\ \E k \in Keys : Primary(before, k) # ret.arg

\* after the addition of a node to a non-empty ring: some key moved to it
C8_WitnessAdd ==
    /\ ret.op = "add_node"
    /\ ret.val
    /\ Cardinality(DOMAIN nodes) >= 2
    /\ \E k \in Keys :
          /\ Primary(RingState, k) = ret.arg
          /\ Primary(remove_node(RingState, ret.arg), k) # ret.arg

(***************************************************************************)
(* C9  After set(key, ...) the bookkeeping entry of key is the list of the *)
(* nodes that were attempted, the whole replica set with the nodes whose   *)
(* write failed, replacing any earlier record.  (The code records only the *)
(* nodes whose write succeeded.)                                           *)
(***************************************************************************)
C9_BookkeepingListsAttempted ==
    ret.op = "set" =>
        /\ ret.arg \in DOMAIN key_map
        /\ key_map[ret.arg] = ret.attempts
        /\ key_map[ret.arg] = ReplicaNames(ret.arg)

(***************************************************************************)
(* C10  delete attempts a delete on every node of the replica set whatever *)
(* the other nodes did, returns an outcome map with one entry per          *)
(* replica-set node, and leaves the key out of the bookkeeping whatever    *)
(* the outcomes were.                                                      *)
(***************************************************************************)
C10_DeleteAttemptsAllAndForgets ==
    ret.op = "delete" =>
        /\ ret.exc = "none"
        /\ ret.attempts = ReplicaNames(ret.arg)
        /\ DOMAIN ret.val = SeqToSet(ReplicaNames(ret.arg))
        /\ \A n \in DOMAIN ret.val : ret.val[n] = (n \notin ret.fail)
        /\ ret.arg \notin DOMAIN key_map

\* a delete whose first node failed, whose second node was still asked and
\* succeeded
C10_Witness ==
    /\ ret.op = "delete"
    /\ Len(ret.attempts) >= 2
    /\ ret.attempts[1] \in ret.fail
    /\ ret.val[ret.attempts[1]] = FALSE
    /\ ret.val[ret.attempts[2]] = TRUE
    /\ ret.arg \notin DOMAIN key_map

(***************************************************************************)
(* C11  With an empty ring get_node returns no node, get_nodes_for_key     *)
(* returns an empty list, and the client operations complete without       *)
(* raising: get returns None, set returns (False, {}), delete returns {}.  *)
(* For any ring, get of a key that no server holds returns None without    *)
(* error, whichever nodes are failing.                                     *)
(***************************************************************************)
C11_EmptyRingAndMissingKey ==
    /\ DOMAIN nodes = {} =>
        /\ ring = <<>>
        /\ \A k \in Keys : get_node(RingState, k) = Ok(<<NoName, NoClient>>)
        /\ \A k \in Keys, count \in 0..MaxCount :
               get_nodes_for_key(RingState, k, count) = Ok(<<>>)
        /\ ret.op \in {"get", "set", "delete"} => ret.exc = "none"
        /\ ret.op = "get" => ret.val = NoneVal
        /\ ret.op = "set" => ret.val = <<FALSE, <<>>>>
        /\ ret.op = "delete" => ret.val = <<>>
    /\ (ret.op = "get" /\ \A n \in NodeNames : servers[n][ret.arg] = NoneVal) =>
        /\ ret.exc = "none"
        /\ ret.val = NoneVal

\* a set against the empty ring
C11_Witness ==
    /\ ret.op = "set"
    /\ DOMAIN nodes = {}
    /\ ret.exc = "none"

\* a get of a key no server holds, on a ring of several nodes of which one
\* is failing
C11_WitnessMissing ==
    /\ ret.op = "get"
    /\ Cardinality(DOMAIN nodes) >= 2
    /\ \A n \in NodeNames : servers[n][ret.arg] = NoneVal
    /\ ret.fail # {}
    /\ Len(ret.attempts) >= 2
    /\ ret.val = NoneVal

(***************************************************************************)
(* C12  Membership changes take effect for all later lookups at once and   *)
(* never touch stored data: after remove_node(A) no get_node or            *)
(* get_nodes_for_key result contains A, after add_node(N) N is among the   *)
(* nodes a lookup returns, neither call changes a server's contents or     *)
(* key_map; so get returns None for a key held only by unregistered nodes. *)
(***************************************************************************)
C12_MembershipImmediateNoMigration ==
    [][/\ ret'.op \in {"add_node", "remove_node"} =>
            /\ servers' = servers
            /\ key_map' = key_map
            /\ LookupsReturn(RingState')
            /\ LET names == LookupNames(RingState')
               IN /\ names \subseteq (DOMAIN nodes' \cup {NoName})
                  /\ ret'.op = "remove_node" => ret'.arg \notin names
       /\ ret'.op \in {"get", "set", "delete"} =>
            SeqToSet(ret'.attempts) \subseteq DOMAIN nodes
       /\ ret'.op = "add_node" =>
            \A k \in Keys :
                ret'.arg \in SeqToSet(Names(
                    get_nodes_for_key(RingState', k, Cardinality(DOMAIN nodes')).val))
       /\ (/\ ret'.op = "get"
           /\ \A n \in DOMAIN nodes : servers[n][ret'.arg] = NoneVal) =>
            /\ ret'.exc = "none"
            /\ ret'.val = NoneVal
      ]_vars

\* a get returned None although an unregistered node still holds the key
\* and other nodes are registered
C12_Witness ==
    /\ ret.op = "get"
    /\ ret.val = NoneVal
    /\ ret.fail = {}
    /\ DOMAIN nodes # {}
    /\ \E n \in NodeNames \ DOMAIN nodes : servers[n][ret.arg] # NoneVal
    /\ ret.arg \in DOMAIN key_map

(***************************************************************************)
(* C13  distribution_stats() returns, for each node name, the number of    *)
(* keys of key_map whose entry lists that node, omitting the nodes listed  *)
(* by no key, and changes neither key_map, the ring nor any server.        *)
(***************************************************************************)
C13_StatsCountKeysPerNode ==
    [][ret'.op = "distribution_stats" =>
          /\ ret'.exc = "none"
          /\ DOMAIN ret'.val =
                 {n \in NodeNames : \E k \in DOMAIN key_map : n \in SeqToSet(key_map[k])}
          /\ \A n \in DOMAIN ret'.val :
                 ret'.val[n] =
                     Cardinality({k \in DOMAIN key_map : n \in SeqToSet(key_map[k])})
          /\ UNCHANGED <<mut, calls, md5, ring, hash2node, nodes, replication_factor, servers, key_map>>
      ]_vars

\* statistics in which one node is listed by two keys, another by one key,
\* and a registered node by none
C13_Witness ==
    /\ ret.op = "distribution_stats"
    /\ \E n \in DOMAIN ret.val : ret.val[n] = 2
    /\ \E n \in DOMAIN ret.val : ret.val[n] = 1
    /\ DOMAIN nodes \ DOMAIN ret.val # {}

(***************************************************************************)
(* C14  In every state reached by add_node/remove_node calls, sequences in *)
(* which two nodes' points hash to the same value included, the ring is    *)
(* strictly ascending: sorted, with no hash value twice.                   *)
(***************************************************************************)
C14_RingStrictlyAscending ==
    \A i \in 1..(Len(ring) - 1) : ring[i] < ring[i + 1]

(***************************************************************************)
(* C15  A node's virtual points are in the ring iff the node is            *)
(* registered: add_node of a new name inserts exactly `replicas` points    *)
(* owned by it, add_node of a registered name changes nothing (ring,       *)
(* hash2node and the stored handle), remove_node deletes exactly the       *)
(* points of that node and no other, remove_node of an absent name         *)
(* changes nothing.                                                        *)
(***************************************************************************)
C15_PointsIffRegistered ==
    [][/\ \A n \in NodeNames :
            /\ n \in DOMAIN nodes' =>
                 /\ PointHashes(n) \subseteq SeqToSet(ring')
                 /\ \A h \in PointHashes(n) : h \in DOMAIN hash2node' /\ hash2node'[h] = n
            /\ n \notin DOMAIN nodes' =>
                 /\ PointHashes(n) \cap SeqToSet(ring') = {}
                 /\ PointHashes(n) \cap DOMAIN hash2node' = {}
       /\ Len(ring') = replicas * Cardinality(DOMAIN nodes')
       /\ NoDuplicates(ring')
       /\ (ret'.op = "add_node" /\ ret'.arg \notin DOMAIN nodes) =>
            /\ SeqToSet(ring') = SeqToSet(ring) \cup PointHashes(ret'.arg)
            /\ Len(ring') = Len(ring) + replicas
            /\ DOMAIN nodes' = DOMAIN nodes \cup {ret'.arg}
            /\ \A h \in DOMAIN hash2node : hash2node'[h] = hash2node[h]
            /\ \A n \in DOMAIN nodes : nodes'[n] = nodes[n]
       /\ (ret'.op = "add_node" /\ ret'.arg \in DOMAIN nodes) =>
            UNCHANGED <<ring, hash2node, nodes>>
       /\ (ret'.op = "remove_node" /\ ret'.arg \in DOMAIN nodes) =>
            /\ SeqToSet(ring') = SeqToSet(ring) \ PointHashes(ret'.arg)
            /\ Len(ring') = Len(ring) - replicas
            /\ DOMAIN nodes' = DOMAIN nodes \ {ret'.arg}
            /\ \A h \in DOMAIN hash2node' : hash2node'[h] = hash2node[h]
            /\ \A n \in DOMAIN nodes' : nodes'[n] = nodes[n]
       /\ (ret'.op = "remove_node" /\ ret'.arg \notin DOMAIN nodes) =>
            UNCHANGED <<ring, hash2node, nodes>>
      ]_vars

\* add_node of a name that is registered, among other nodes
C15_Witness ==
    /\ ret.op = "add_node"
    /\ ret.val = FALSE
    /\ ret.arg \in DOMAIN nodes
    /\ nodes[ret.arg].conn = "c1"
    /\ Cardinality(DOMAIN nodes) >= 2

\* remove_node of a registered name while other nodes stay
C15_WitnessRemove ==
    /\ ret.op = "remove_node"
    /\ ret.val = TRUE
    /\ Len(ring) = replicas * Cardinality(DOMAIN nodes)
    /\ Cardinality(DOMAIN nodes) >= 2

(***************************************************************************)
(* C16  get_nodes_for_key(key, count) terminates in every ring state       *)
(* reached by add_node/remove_node, for every key and count, count above   *)
(* the number of registered nodes and rings in which a registered node     *)
(* owns no point (all its points overwritten by colliding ones) included.  *)
(***************************************************************************)
C16_GetNodesForKeyTerminates ==
    ret.op = "get_nodes_for_key" => ret.exc # "Hang"

(***************************************************************************)
(* C19  In every ring state reached by a sequence of add_node/remove_node  *)
(* calls, colliding points of different nodes included, every hash value   *)
(* in ring has an entry in hash2node whose node has a handle in nodes, so  *)
(* get_node and get_nodes_for_key never raise KeyError and never return    *)
(* an unregistered node.                                                   *)
(***************************************************************************)
C19_EveryPointHasRegisteredOwner ==
    /\ \A i \in 1..Len(ring) :
           /\ ring[i] \in DOMAIN hash2node
           /\ hash2node[ring[i]] \in DOMAIN nodes
    /\ ret.op \in {"get_node", "get_nodes_for_key"} => ret.exc # "KeyError"

(***************************************************************************)
(* C17  A lookup (get_node, get_nodes_for_key) that runs while add_node or *)
(* remove_node is in progress sees the ring as it was before the call or   *)
(* as it is after it, never a partial update: it does not fail and         *)
(* returns what it returns on one of those two rings.                      *)
(***************************************************************************)
C17_LookupSeesBeforeOrAfter ==
    (mut.op # "idle" /\ ret.op \in {"get_node", "get_nodes_for_key"}) =>
        LET after == IF mut.op = "add_node"
                     THEN add_node(mut.before, mut.node_name, mut.client)
                     ELSE remove_node(mut.before, mut.node_name)
        IN /\ ret.exc = "none"
           /\ ret.op = "get_node" =>
                ret.val \in {get_node(mut.before, ret.arg).val,
                             get_node(after, ret.arg).val}
           /\ ret.op = "get_nodes_for_key" =>
                ret.val \in {get_nodes_for_key(mut.before, ret.arg[1], ret.arg[2]).val,
                             get_nodes_for_key(after, ret.arg[1], ret.arg[2]).val}

(***************************************************************************)
(* C18  key_map is protected against concurrent writers: when set and      *)
(* delete calls of different threads interleave on one client, two deletes *)
(* of the same key included, every call completes without error and the    *)
(* key's entry ends as some serial order of the calls leaves it.           *)
(***************************************************************************)
C18_ConcurrentCallsComplete ==
    ret.op \in {"set", "delete"} => ret.exc = "none"

(***************************************************************************)
(* C20  Read-your-writes, as claimed: a get(key) that follows a set(key,   *)
(* v) accepted by every node of the replica set returns v whenever some    *)
(* replica-set node is reachable, and a get that follows a delete accepted *)
(* by every replica-set node returns None.                                 *)
(***************************************************************************)
C20_ReadYourWrites ==
    [][/\ (AfterFullSet /\ GetReachesReplica) => ret'.val = ret.value
       /\ (AfterFullDelete /\ ret'.op = "get") => ret'.val = NoneVal
      ]_vars

(***************************************************************************)
(* C20 amended  A get(key) that follows a set(key, v) accepted by every    *)
(* replica-set node returns, whenever some replica-set node is reachable,  *)
(* v as get presents it: v itself when v is text or bytes that are no      *)
(* valid UTF-8, the decoded text when v is bytes that decode.  After such  *)
(* a set every replica-set node holds the encoded v, after a delete        *)
(* accepted by every replica-set node none holds the key, and gets leave   *)
(* that as it is; a get then returns None.                                 *)
(***************************************************************************)
C20_ReadYourWritesDecoded ==
    [][/\ (AfterFullSet /\ GetReachesReplica) =>
            /\ ret'.exc = "none"
            /\ ret'.val = Decode(Encode(ret.value))
            /\ ret.value.kind = "str" => ret'.val = ret.value
            /\ Decode(ret.value) = ret.value => ret'.val = ret.value
       /\ (AfterFullDelete /\ ret'.op = "get") =>
            /\ ret'.exc = "none"
            /\ ret'.val = NoneVal
       /\ AfterFullSet =>
            \A n \in SeqToSet(ReplicaNames(ret.arg)) : servers[n][ret.arg] = Encode(ret.value)
       /\ AfterFullDelete =>
            \A n \in SeqToSet(ReplicaNames(ret.arg)) : servers[n][ret.arg] = NoneVal
       /\ ret'.op = "get" =>
            /\ servers' = servers
            /\ (/\ ReplicaNames(ret'.arg) # <<>>
                /\ SeqToSet(ReplicaNames(ret'.arg)) \ ret'.fail # {}
                /\ \E w \in {Encode(v) : v \in Values} :
                       \A n \in SeqToSet(ReplicaNames(ret'.arg)) : servers[n][ret'.arg] = w)
               => ret'.val = Decode(servers[ReplicaNames(ret'.arg)[1]][ret'.arg])
      ]_vars

\* a get that returned the text of bytes written to all of several replicas
\* although one of them was failing
C20_Witness ==
    /\ ret.op = "get"
    /\ Len(ReplicaNames(ret.arg)) >= 2
    /\ ret.fail # {}
    /\ \A n \in SeqToSet(ReplicaNames(ret.arg)) : servers[n][ret.arg] = Bytes("v1")
    /\ ret.val = Str("v1")

\* a get that returned None after a delete that every replica accepted
C20_WitnessDelete ==
    /\ ret.op = "get"
    /\ Len(ReplicaNames(ret.arg)) >= 2
    /\ ret.fail # {}
    /\ \A n \in SeqToSet(ReplicaNames(ret.arg)) : servers[n][ret.arg] = NoneVal
    /\ ret.arg \notin DOMAIN key_map
    /\ \E n \in NodeNames : servers[n][ret.arg] # NoneVal
    /\ ret.val = NoneVal

====
